---- MODULE Spec2Model ----
(***************************************************************************)
(* ClassificationTask (classy_vision/tasks/classification_task.py): the    *)
(* phase plan builder, the phase controller, the step executor, the        *)
(* progress fraction `where` and the checkpoint codec, as a state machine. *)
(*                                                                         *)
(* Numbers: num_epochs is Union[int, float]; it is kept as a fraction      *)
(* num/den, den = 1 for a Python int and den = EpochDen for a Python float *)
(* given in halves.  `where` is a quotient of floats; it is kept as the    *)
(* pair (WhereNum, WhereDen) and compared by cross-multiplication.         *)
(* Lists are Python objects: `losses` is a reference into `heap`, so that  *)
(* two holders of the same list see each other's appends.                  *)
(***************************************************************************)
EXTENDS Integers, Sequences, FiniteSets, TLC

VARIABLES
    \* configuration, set by the constructor and the set_* methods
    test_only, test_phase_period, train_phases_per_epoch, num_epochs, hooks,
    \* the distributed options and the mixed-precision arguments
    broadcast_buffers_mode, batch_norm_sync_mode, find_unused_parameters,
    amp_args,
    \* whether `import apex` succeeded when the module was loaded
    apex_available,
    \* the process's environment: is_distributed_training_run(), and whether
    \* the loss is a ClassyLoss with learned parameters
    is_distributed, loss_has_learned_parameters,
    \* derived by prepare()
    prepared, phases,
    \* run state
    train, phase_idx, train_phase_idx, num_updates, losses, meters,
    data_iterator, last_batch, model_train_mode,
    phase_start_time_total, phase_start_time_train, perf_log,
    \* the state of each hook of the task, by the hook's name
    hook_state,
    \* the DDP wrapper of the base model (None until the model is wrapped),
    \* whether self.loss is the DDP wrapper of the loss, and the
    \* broadcast_buffers option the wrappers were made with
    distributed_model, loss_wrapped, broadcast_buffers,
    \* the last call on the task: the calls it made on its collaborators, in
    \* order; the batch a step fetched (whether it is a mapping with the two
    \* keys, and the loss the forward pass computes on it); the performance
    \* log as the phase-end hooks found it
    events, sample, hooks_saw,
    \* the Python heap of list objects (loss histories)
    heap,
    \* a checkpoint record held by the caller of get_classy_state
    state,
    \* how `state` was extracted: with deep_copy or not, after how many calls
    \* of set_classy_state, and the source task's fields then (values, not refs)
    extracted,
    \* how many times set_classy_state was called
    restores,
    \* the call that ran last, what it raised, and what it returned
    last_op, raised, ret,
    \* a distributed run: where each process is in its lifecycle (empty when
    \* the task's process is looked at alone)
    procs

optvars == <<broadcast_buffers_mode, batch_norm_sync_mode,
             find_unused_parameters, amp_args, apex_available>>

cfgvars == <<test_only, test_phase_period, train_phases_per_epoch, num_epochs,
             hooks, is_distributed, loss_has_learned_parameters, optvars>>

runvars == <<train, phase_idx, train_phase_idx, num_updates, losses, meters,
             data_iterator, last_batch, model_train_mode,
             phase_start_time_total, phase_start_time_train, perf_log>>

ckptvars == <<state, extracted, restores>>

ddpvars == <<distributed_model, loss_wrapped, broadcast_buffers>>

tracevars == <<events, sample, hooks_saw>>

taskvars == <<cfgvars, prepared, phases, runvars, hook_state, ddpvars,
              tracevars, heap, ckptvars, last_op, raised, ret>>

vars == <<taskvars, procs>>

----------------------------------------------------------------------------
(* Bounds of the exploration *)

MaxEpochs == 3
MaxPeriod == 3
MaxPhasesPerEpoch == 2
\* denominator of a float num_epochs (halves)
EpochDen == 2
\* batches per phase of the train and of the test dataset (len(dataloader))
TrainBatches == 2
TestBatches == 2
\* dataset.get_global_batchsize() of the train and of the test dataset
TrainGlobalBatchsize == 2
TestGlobalBatchsize == 2
\* dataset.get_batchsize_per_replica(): target.size(0) of every batch
BatchsizePerReplica == 2
\* the steps of one phase are capped by the length of its loss history
MaxLosses == 3
\* the calls of set_classy_state of one run are capped
MaxRestores == 1
\* the hooks a task can be given: their names are 1..MaxHooks
MaxHooks == 2
\* the processes of a distributed run
NumProcs == 2

\* Python's None, and a present value, as a sequence of length 0 or 1
None == <<>>
Some(x) == <<x>>
Get(o) == o[1]
NoError == "none"
\* a loss that is NaN or +/- infinity, and the losses a step can compute:
\* a finite one or a non-finite one
NonFinite == -1
LossValues == {1, NonFinite}

----------------------------------------------------------------------------
(* Pure helpers *)

\* math.ceil(a / b) for b > 0
Ceil(a, b) == -((-a) \div b)

\* loss.item() * target.size(0), where NaN and inf absorb the product
ScaleLoss(loss, n) == IF loss = NonFinite THEN NonFinite ELSE loss * n

IsInt(x) == x.den = 1

RECURSIVE CountTrain(_)
CountTrain(ps) ==
    IF ps = <<>> THEN 0
    ELSE (IF Head(ps).train THEN 1 ELSE 0) + CountTrain(Tail(ps))

\* get_total_training_phases
get_total_training_phases(ps) == CountTrain(ps)

\* get_total_test_phases
get_total_test_phases(ps) == Len(ps) - CountTrain(ps)

Repeat(x, n) == [i \in 1..n |-> x]

----------------------------------------------------------------------------
(* _build_phases *)

\* a test phase is placed after every period-th train phase (one too early)
TestDueOffByOne(i, period) == i % period = 0

\* (i + 1) % self.test_phase_period == 0
TestDue(i, period) == (i + 1) % period = 0

\* the enumerate loop: append each train phase, and a test phase after every
\* test_phase_period-th one
RECURSIVE Interleave(_, _, _, _)
Interleave(ps, i, period, final_phases) ==
    IF i >= Len(ps) THEN final_phases
    ELSE LET appended == Append(final_phases, ps[i + 1])
         IN  Interleave(ps, i + 1, period,
                        IF TestDue(i, period)
                        THEN Append(appended, [train |-> FALSE])
                        ELSE appended)

\* the number of train phases: math.ceil(train_phases_per_epoch * num_epochs);
\* range() of a non-positive number is empty
TrainPhaseCount(ppe, ne) ==
    LET n == Ceil(ppe * ne.num, ne.den) IN IF n < 0 THEN 0 ELSE n

\* one test phase too many
TestOnlyPhasesOneMore(n) == Repeat([train |-> FALSE], n + 1)

\* [{"train": False} for _ in range(self.num_epochs)]
TestOnlyPhases(n) == Repeat([train |-> FALSE], n)

\* the value returned, or the exception raised
build_phases(t_only, ppe, ne, period) ==
    IF ~t_only
    THEN LET ps == Repeat([train |-> TRUE], TrainPhaseCount(ppe, ne))
             final_phases == Interleave(ps, 0, period, <<>>)
         IN  IF final_phases = <<>>
             THEN \* final_phases[-1] of an empty list
                  [raised |-> "IndexError", value |-> <<>>]
             ELSE IF final_phases[Len(final_phases)].train
             THEN [raised |-> NoError,
                   value |-> Append(final_phases, [train |-> FALSE])]
             ELSE [raised |-> NoError, value |-> final_phases]
    ELSE IF ~IsInt(ne)
    THEN \* range() of a float
         [raised |-> "TypeError", value |-> <<>>]
    ELSE [raised |-> NoError, value |-> TestOnlyPhases(ne.num)]

----------------------------------------------------------------------------
(* The heap of list objects *)

\* the smallest identity no live list has
NewRef(h) == CHOOSE i \in 1..(Cardinality(DOMAIN h) + 1) :
                 /\ i \notin DOMAIN h
                 /\ \A j \in 1..(i - 1) : j \in DOMAIN h

\* lists nothing refers to any more are garbage
Collect(h, roots) == [i \in (DOMAIN h) \cap roots |-> h[i]]

Roots(task_losses, st) ==
    {task_losses} \cup (IF st = None THEN {} ELSE {Get(st).losses})

----------------------------------------------------------------------------
(* Properties and accessors of the task *)

\* phase_type
PhaseType(tr) == IF tr THEN "train" ELSE "test"

\* len(dataloader) of a phase type
NumBatches(phase_type) ==
    IF phase_type = "train" THEN TrainBatches ELSE TestBatches

\* every step counts as one update
OneUpdatePerStep(phase_type) == 1

\* get_global_batchsize
get_global_batchsize(phase_type) ==
    IF phase_type = "train" THEN TrainGlobalBatchsize ELSE TestGlobalBatchsize

\* Python's list indexing: negative indices count from the end
IndexInRange(ps, i) == -Len(ps) <= i /\ i < Len(ps)
Index(ps, i) == IF i >= 0 THEN ps[i + 1] ELSE ps[Len(ps) + i + 1]

\* true only once phase_idx is past the plan
DoneTrainingLate(idx, ps) == idx >= Len(ps)

\* done_training
done_training(idx, ps) == idx + 1 >= Len(ps)

\* eval_phase_idx
eval_phase_idx(idx, tidx) == idx - tidx - 1

\* `where`: the denominator gbs * num_phases * num_batches_per_phase of
\* (num_updates / gbs) / (num_phases * num_batches_per_phase)
WhereDen(t_only, ps, tr, it) ==
    get_global_batchsize(PhaseType(tr))
    * (IF t_only THEN get_total_test_phases(ps)
       ELSE get_total_training_phases(ps))
    * NumBatches(Get(it).phase_type)

\* `where`: the exception the property raises, NoError when it returns
where_raises(t_only, ps, tr, updates, it) ==
    IF it = None THEN "TypeError"                 \* len(None)
    ELSE IF NumBatches(Get(it).phase_type) <= 0 THEN "RuntimeError"
    ELSE IF WhereDen(t_only, ps, tr, it) = 0 THEN "ZeroDivisionError"
    ELSE IF ~(updates >= 0 /\ updates < WhereDen(t_only, ps, tr, it))
    THEN "AssertionError"                         \* assert 0 <= where < 1
    ELSE NoError

\* `where`: the value returned, as numerator and denominator
where_value(t_only, ps, tr, updates, it) ==
    [num |-> updates, den |-> WhereDen(t_only, ps, tr, it)]

\* every loss passes
CheckInfNanNever(loss) == NoError

\* check_inf_nan
check_inf_nan(loss) == IF loss = NonFinite THEN "FloatingPointError" ELSE NoError

\* iter(self.dataloaders[phase_type]) after _recreate_data_loader_from_dataset
create_data_iterator(tr) == Some([phase_type |-> PhaseType(tr), consumed |-> 0])

\* a call that raised anything but StopIteration ends the process
Alive == raised \in {NoError, "StopIteration"}

----------------------------------------------------------------------------
(* Construction *)

NumMeters == 1

\* the fields __init__ sets
Constructed ==
    /\ prepared = FALSE
    /\ phases = <<>>
    /\ train = TRUE
    /\ phase_idx = -1
    /\ train_phase_idx = -1
    /\ num_updates = 0
    /\ losses = 1
    /\ heap = [i \in {1} |-> <<>>]
    /\ meters = Repeat(0, NumMeters)
    /\ data_iterator = None
    /\ last_batch = None
    /\ model_train_mode = TRUE
    /\ phase_start_time_total = FALSE
    /\ phase_start_time_train = FALSE
    /\ perf_log = <<>>
    /\ hooks = <<>>
    /\ hook_state = <<>>
    /\ distributed_model = None
    /\ loss_wrapped = FALSE
    /\ broadcast_buffers = None
    /\ broadcast_buffers_mode = "DISABLED"
    /\ batch_norm_sync_mode = "DISABLED"
    /\ find_unused_parameters = TRUE
    /\ amp_args = None
    /\ events = <<>>
    /\ sample = None
    /\ hooks_saw = None
    /\ state = None
    /\ extracted = None
    /\ restores = 0
    /\ last_op = "__init__"
    /\ raised = NoError
    /\ ret = None

IntEpochs == {[num |-> n, den |-> 1] : n \in 1..MaxEpochs}
FloatEpochs == {[num |-> h, den |-> EpochDen] : h \in EpochDen..(EpochDen * MaxEpochs)}

\* the task's process looked at alone
NoPeers == procs = <<>>

\* apex is not installed
NoApex == apex_available = FALSE

\* a run of one process: no process group, so nothing is wrapped
SingleProcess ==
    /\ NoPeers
    /\ NoApex
    /\ is_distributed = FALSE
    /\ loss_has_learned_parameters = FALSE

\* a task whose datasets were set as from_config sets them: a test-only task
\* gets no train dataset (train_phases_per_epoch stays 0), any other task a
\* train dataset without a phases_per_epoch attribute (1); or a task that is
\* not test-only and was given no train dataset.  num_epochs is an integer.
Init ==
    /\ Constructed
    /\ SingleProcess
    /\ test_only \in BOOLEAN
    /\ test_phase_period \in 1..MaxPeriod
    /\ train_phases_per_epoch \in (IF test_only THEN {0} ELSE {0, 1})
    /\ num_epochs \in IntEpochs

\* every configuration of the phase plan builder within the bounds
InitPlan ==
    /\ Constructed
    /\ SingleProcess
    /\ test_only \in BOOLEAN
    /\ test_phase_period \in 1..MaxPeriod
    /\ train_phases_per_epoch \in 0..MaxPhasesPerEpoch
    /\ num_epochs \in IntEpochs \cup FloatEpochs

----------------------------------------------------------------------------
(* Operations *)

\* one call per meter, or per hook, in list order
Calls(name, n) == [i \in 1..n |-> name]

\* a call that fetches no batch and runs no phase-end hook
NoBatchNoHooks == sample' = None /\ hooks_saw' = None

\* the model is wrapped again, whatever it is
InitDDPUnchecked(dist, dm, lhp, lw) ==
    IF ~dist
    THEN [raised |-> NoError, distributed_model |-> dm, loss_wrapped |-> lw]
    ELSE [raised |-> NoError,
          distributed_model |->
              IF dm = None THEN Some("DDP(base_model)")
              ELSE Some("DDP(DDP(base_model))"),
          loss_wrapped |-> (lw \/ lhp)]

\* init_distributed_data_parallel_model: the wrappers afterwards and the
\* exception raised (NoError when it returns)
init_distributed_data_parallel_model(dist, dm, lhp, lw) ==
    IF ~dist
    THEN [raised |-> NoError, distributed_model |-> dm, loss_wrapped |-> lw]
    ELSE IF dm # None
    THEN \* assert self.distributed_model is None
         [raised |-> "AssertionError", distributed_model |-> dm,
          loss_wrapped |-> lw]
    ELSE [raised |-> NoError, distributed_model |-> Some("DDP(base_model)"),
          loss_wrapped |-> (lw \/ lhp)]

\* the buffers of the base model: list(self.base_model.buffers())
NumBuffers == 2

BroadcastBuffersModes == {"DISABLED", "FORWARD_PASS", "BEFORE_EVAL"}
BatchNormSyncModes == {"DISABLED", "PYTORCH", "APEX"}

\* broadcast_buffers = (self.broadcast_buffers_mode == FORWARD_PASS)
wrapper_broadcast_buffers(mode) == mode = "FORWARD_PASS"

\* the option the wrappers have once init_distributed_data_parallel_model
\* returned: that of the call if it wrapped the model (dm became dm1)
wrapped_with(dm, dm1, option, mode) ==
    IF dm1 # dm THEN Some(wrapper_broadcast_buffers(mode)) ELSE option

\* the buffers are broadcast on entering any phase
BroadcastEveryPhase(mode, tr, dm) == mode = "BEFORE_EVAL" /\ dm # None

\* _set_model_train_mode and _broadcast_buffers: whether the buffers are
\* broadcast
broadcast_due(mode, tr, dm) == mode = "BEFORE_EVAL" /\ ~tr /\ dm # None

\* for buffer in buffers: broadcast(buffer, 0, ...)
broadcast_calls(mode, tr, dm) ==
    IF broadcast_due(mode, tr, dm) THEN Calls("broadcast", NumBuffers)
    ELSE <<>>

\* the calls evs of an operation, with what its _set_model_train_mode did
RECURSIVE WithBroadcasts(_, _)
WithBroadcasts(evs, calls) ==
    IF evs = <<>> THEN <<>>
    ELSE IF Head(evs) = "_set_model_train_mode"
    THEN <<Head(evs)>> \o calls \o Tail(evs)
    ELSE <<Head(evs)>> \o WithBroadcasts(Tail(evs), calls)

\* a call of _build_phases on the task: returns the plan, assigns nothing
BuildPhases ==
    /\ raised = NoError
    /\ LET r == build_phases(test_only, train_phases_per_epoch, num_epochs,
                             test_phase_period)
       IN  /\ raised' = r.raised
           /\ ret' = IF r.raised = NoError THEN Some(r.value) ELSE None
    /\ last_op' = "_build_phases"
    /\ events' = <<>>
    /\ NoBatchNoHooks
    /\ UNCHANGED <<procs, cfgvars, prepared, phases, runvars, hook_state, ddpvars,
                   heap, ckptvars>>

\* prepare(): no checkpoint set
Prepare ==
    /\ ~prepared
    /\ raised = NoError
    /\ last_op' = "prepare"
    /\ ret' = None
    /\ events' = <<>>
    /\ NoBatchNoHooks
    /\ LET r == build_phases(test_only, train_phases_per_epoch, num_epochs,
                             test_phase_period)
           d == init_distributed_data_parallel_model(is_distributed,
                    distributed_model, loss_has_learned_parameters,
                    loss_wrapped)
       IN  IF r.raised = NoError
           THEN /\ phases' = r.value
                /\ train' = IF test_only THEN FALSE ELSE train
                /\ prepared' = TRUE
                /\ raised' = d.raised
                /\ distributed_model' = d.distributed_model
                /\ loss_wrapped' = d.loss_wrapped
                /\ broadcast_buffers' =
                       wrapped_with(distributed_model, d.distributed_model,
                                    broadcast_buffers, broadcast_buffers_mode)
           ELSE /\ raised' = r.raised
                /\ UNCHANGED <<phases, train, prepared, ddpvars>>
    /\ UNCHANGED <<procs, cfgvars, phase_idx, train_phase_idx, num_updates, losses,
                   meters, data_iterator, last_batch, model_train_mode,
                   phase_start_time_total, phase_start_time_train, perf_log,
                   hook_state, heap, ckptvars>>

\* the lists set_hooks accepts: no two hooks with the same name
HookLists ==
    UNION {{hs \in [1..n -> 1..MaxHooks] :
                \A i, j \in 1..n : hs[i] = hs[j] => i = j} : n \in 0..MaxHooks}

HookNames(hs) == {hs[i] : i \in DOMAIN hs}

\* set_hooks(hooks), with newly constructed hooks
SetHooks(hs) ==
    /\ Alive
    /\ hs # hooks
    /\ last_op' = "set_hooks"
    /\ raised' = NoError
    /\ ret' = None
    /\ events' = <<>>
    /\ NoBatchNoHooks
    /\ hooks' = hs
    /\ hook_state' = [h \in HookNames(hs) |-> 0]
    /\ UNCHANGED <<procs, test_only, test_phase_period,
                   train_phases_per_epoch, num_epochs, is_distributed,
                   loss_has_learned_parameters, optvars,
                   prepared, phases, runvars, ddpvars, heap, ckptvars>>

\* set_distributed_options: the three options afterwards and the exception
\* raised (NoError when it returns)
set_distributed_options(mode, bn, fup, cur_bn, cur_fup, apex) ==
    IF bn = "APEX" /\ ~apex
    THEN [raised |-> "RuntimeError", broadcast_buffers_mode |-> mode,
          batch_norm_sync_mode |-> cur_bn, find_unused_parameters |-> cur_fup]
    ELSE [raised |-> NoError, broadcast_buffers_mode |-> mode,
          batch_norm_sync_mode |-> bn, find_unused_parameters |-> fup]

SetDistributedOptions(mode, bn, fup) ==
    /\ raised = NoError
    /\ last_op' = "set_distributed_options"
    /\ ret' = None
    /\ events' = <<>>
    /\ NoBatchNoHooks
    /\ LET r == set_distributed_options(mode, bn, fup, batch_norm_sync_mode,
                                        find_unused_parameters, apex_available)
       IN  /\ raised' = r.raised
           /\ broadcast_buffers_mode' = r.broadcast_buffers_mode
           /\ batch_norm_sync_mode' = r.batch_norm_sync_mode
           /\ find_unused_parameters' = r.find_unused_parameters
    /\ UNCHANGED <<procs, test_only, test_phase_period,
                   train_phases_per_epoch, num_epochs, hooks, is_distributed,
                   loss_has_learned_parameters, amp_args, apex_available,
                   prepared, phases, runvars, hook_state, ddpvars, heap,
                   ckptvars>>

\* the arguments set_amp_args is given: None, or a dictionary for
\* amp.initialize
AmpArgs == {None, Some("O1"), Some("O2")}

\* set_amp_args: amp_args afterwards and the exception raised
set_amp_args(args, apex) ==
    [raised |-> IF args # None /\ ~apex THEN "RuntimeError" ELSE NoError,
     amp_args |-> args]

SetAmpArgs(args) ==
    /\ raised = NoError
    /\ last_op' = "set_amp_args"
    /\ ret' = None
    /\ events' = <<>>
    /\ NoBatchNoHooks
    /\ raised' = set_amp_args(args, apex_available).raised
    /\ amp_args' = set_amp_args(args, apex_available).amp_args
    /\ UNCHANGED <<procs, test_only, test_phase_period,
                   train_phases_per_epoch, num_epochs, hooks, is_distributed,
                   loss_has_learned_parameters, broadcast_buffers_mode,
                   batch_norm_sync_mode, find_unused_parameters,
                   apex_available,
                   prepared, phases, runvars, hook_state, ddpvars, heap,
                   ckptvars>>

\* a call of init_distributed_data_parallel_model by the task's owner
InitDistributedDataParallelModel ==
    /\ Alive
    /\ last_op' = "init_distributed_data_parallel_model"
    /\ ret' = None
    /\ events' = <<>>
    /\ NoBatchNoHooks
    /\ LET d == init_distributed_data_parallel_model(is_distributed,
                    distributed_model, loss_has_learned_parameters,
                    loss_wrapped)
       IN  /\ raised' = d.raised
           /\ distributed_model' = d.distributed_model
           /\ loss_wrapped' = d.loss_wrapped
           /\ broadcast_buffers' =
                  wrapped_with(distributed_model, d.distributed_model,
                               broadcast_buffers, broadcast_buffers_mode)
    /\ UNCHANGED <<procs, cfgvars, prepared, phases, runvars, hook_state, heap,
                   ckptvars>>

\* train_phase_idx counts every phase
CountEveryPhase(tr, tidx) == tidx + 1

\* if self.train: self.train_phase_idx += 1
next_train_phase_idx(tr, tidx) == IF tr THEN tidx + 1 ELSE tidx

\* if self.train and self.train_phase_idx >= 0
schedule_update_due(tr, tidx) == tr /\ tidx >= 0

\* advance_phase, below the reset of the meters and of the loss history: the
\* new phase fields and the exception raised (NoError when it returns)
advance_phase(idx, tidx, tr, ps, t_only, updates, it, mode) ==
    LET idx1 == idx + 1 IN
    IF ~IndexInRange(ps, idx1)
    THEN \* self.phases[self.phase_idx] after the increment
         [raised |-> "IndexError", phase_idx |-> idx1, train |-> tr,
          train_phase_idx |-> tidx, data_iterator |-> it,
          model_train_mode |-> mode,
          events |-> Calls("meter.reset", NumMeters)]
    ELSE LET tr1 == Index(ps, idx1).train
             tidx1 == next_train_phase_idx(tr1, tidx)
             it1 == create_data_iterator(tr1)
             err == IF schedule_update_due(tr1, tidx1)
                    THEN \* update_schedule_on_epoch(self.where)
                         where_raises(t_only, ps, tr1, updates, it1)
                    ELSE NoError
         IN  [raised |-> err,
              phase_idx |-> idx1, train |-> tr1, train_phase_idx |-> tidx1,
              data_iterator |-> it1,
              model_train_mode |-> Index(ps, idx1).train,
              events |-> Calls("meter.reset", NumMeters)
                  \o <<"_recreate_data_loader_from_dataset",
                       "create_data_iterator", "_set_model_train_mode">>
                  \o (IF schedule_update_due(tr1, tidx1) /\ err = NoError
                      THEN <<"optimizer.update_schedule_on_epoch">>
                      ELSE <<>>)]

\* advance_phase on the task as it is
AdvanceResult ==
    advance_phase(phase_idx, train_phase_idx, train, phases, test_only,
                  num_updates, data_iterator, model_train_mode)

\* the calls advance_phase makes, those of its _set_model_train_mode included
AdvanceEvents ==
    WithBroadcasts(AdvanceResult.events,
                   broadcast_calls(broadcast_buffers_mode,
                                   AdvanceResult.train, distributed_model))

\* a hook's state once one of its callbacks ran (the default state is 0)
HookCalled(hs) == [h \in DOMAIN hs |-> 1]

\* the assignments of advance_phase, shared by on_phase_start
AdvanceAssign ==
    LET r == AdvanceResult
        fresh == NewRef(heap)
    IN  /\ meters' = [m \in DOMAIN meters |-> 0]
        /\ losses' = fresh
        /\ heap' = Collect(heap @@ (fresh :> <<>>), Roots(fresh, state))
        /\ phase_idx' = r.phase_idx
        /\ train' = r.train
        /\ train_phase_idx' = r.train_phase_idx
        /\ data_iterator' = r.data_iterator
        /\ model_train_mode' = r.model_train_mode
        /\ raised' = r.raised

AdvancePhase ==
    /\ prepared /\ Alive
    /\ last_op' = "advance_phase"
    /\ ret' = None
    /\ AdvanceAssign
    /\ events' = AdvanceEvents
    /\ NoBatchNoHooks
    /\ UNCHANGED <<procs, cfgvars, prepared, phases, num_updates, last_batch,
                   phase_start_time_total, phase_start_time_train, perf_log,
                   hook_state, ddpvars, ckptvars>>

\* on_phase_start: each hook's callback runs after advance_phase returned
OnPhaseStart ==
    /\ prepared /\ Alive
    /\ last_op' = "on_phase_start"
    /\ ret' = None
    /\ phase_start_time_total' = TRUE
    /\ AdvanceAssign
    /\ phase_start_time_train' =
           IF raised' = NoError THEN TRUE ELSE phase_start_time_train
    /\ events' = AdvanceEvents
                  \o (IF raised' = NoError
                      THEN Calls("hook.on_phase_start", Len(hooks))
                      ELSE <<>>)
    /\ hook_state' = IF raised' = NoError THEN HookCalled(hook_state)
                     ELSE hook_state
    /\ NoBatchNoHooks
    /\ UNCHANGED <<procs, cfgvars, prepared, phases, num_updates, last_batch,
                   perf_log, ddpvars, ckptvars>>

\* next(self.get_data_iterator()): the exception raised, NoError for a batch
next_raises(it) ==
    IF it = None THEN "TypeError"
    ELSE IF Get(it).consumed >= NumBatches(Get(it).phase_type)
    THEN "StopIteration"
    ELSE NoError

Consume(it) == Some([Get(it) EXCEPT !.consumed = @ + 1])

\* the meters are not fed
MetersNotFed(ms) == ms

\* update_meters
update_meters(ms) == [m \in DOMAIN ms |-> ms[m] + 1]

\* the batch is used as it comes
BatchUnchecked(valid) == NoError

\* assert isinstance(sample, dict) and "input" in sample and "target" in sample
batch_assertion(valid) == IF valid THEN NoError ELSE "AssertionError"

\* the forward pass of a step: the model, the loss and its all-reduce
Forward == <<"model", "compute_loss", "all_reduce_mean">>

\* the backward pass of train_step: the optimizer's, or with amp_args apex's
\* scaled one
backward_calls(args) ==
    IF args = None THEN <<"optimizer.backward">>
    ELSE <<"optimizer.zero_grad", "amp.scale_loss", "scaled_loss.backward">>

\* train_step: what follows the backward pass
train_step_raises(loss, t_only, ps, tr, updates, it) ==
    IF check_inf_nan(loss) # NoError THEN check_inf_nan(loss)
    ELSE \* update_schedule_on_step(self.where)
         where_raises(t_only, ps, tr, updates, it)

TrainStep ==
    /\ prepared /\ Alive
    /\ Len(heap[losses]) < MaxLosses
    /\ last_op' = "train_step"
    /\ ret' = None
    /\ hooks_saw' = None
    /\ IF next_raises(data_iterator) # NoError
       THEN /\ raised' = next_raises(data_iterator)
            /\ last_batch' = None
            /\ events' = <<"next">>
            /\ sample' = None
            /\ UNCHANGED <<data_iterator, heap, meters, num_updates>>
       ELSE \E valid \in BOOLEAN, loss \in LossValues :
            /\ data_iterator' = Consume(data_iterator)
            /\ sample' = IF valid THEN Some([valid |-> TRUE, loss |-> loss])
                         ELSE Some([valid |-> FALSE])
            /\ IF batch_assertion(valid) # NoError
               THEN /\ raised' = batch_assertion(valid)
                    /\ last_batch' = None
                    /\ events' = <<"next">>
                    /\ UNCHANGED <<heap, meters, num_updates>>
               ELSE LET err == train_step_raises(loss, test_only, phases,
                                   train, num_updates, data_iterator')
                    IN  /\ heap' = [heap EXCEPT ![losses] =
                               Append(@, ScaleLoss(loss, BatchsizePerReplica))]
                        /\ meters' = update_meters(meters)
                        /\ raised' = err
                        /\ events' =
                               <<"next">> \o Forward
                               \o Calls("meter.update", NumMeters)
                               \o backward_calls(amp_args)
                               \o (IF err = NoError
                                   THEN <<"optimizer.update_schedule_on_step",
                                          "optimizer.step">>
                                   ELSE <<>>)
                        /\ num_updates' =
                               IF err = NoError
                               THEN num_updates
                                    + get_global_batchsize(PhaseType(train))
                               ELSE num_updates
                        /\ last_batch' =
                               IF err = NoError THEN Some([loss |-> loss])
                               ELSE None
    /\ UNCHANGED <<procs, cfgvars, prepared, phases, train, phase_idx,
                   train_phase_idx, losses, model_train_mode,
                   phase_start_time_total, phase_start_time_train, perf_log,
                   hook_state, ddpvars, ckptvars>>

EvalStep ==
    /\ prepared /\ Alive
    /\ Len(heap[losses]) < MaxLosses
    /\ last_op' = "eval_step"
    /\ ret' = None
    /\ hooks_saw' = None
    /\ IF next_raises(data_iterator) # NoError
       THEN /\ raised' = next_raises(data_iterator)
            /\ last_batch' = None
            /\ events' = <<"next">>
            /\ sample' = None
            /\ UNCHANGED <<data_iterator, heap, meters>>
       ELSE \E valid \in BOOLEAN, loss \in LossValues :
            /\ data_iterator' = Consume(data_iterator)
            /\ sample' = IF valid THEN Some([valid |-> TRUE, loss |-> loss])
                         ELSE Some([valid |-> FALSE])
            /\ IF batch_assertion(valid) # NoError
               THEN /\ raised' = batch_assertion(valid)
                    /\ last_batch' = None
                    /\ events' = <<"next">>
                    /\ UNCHANGED <<heap, meters>>
               ELSE IF check_inf_nan(loss) # NoError
               THEN /\ raised' = check_inf_nan(loss)
                    /\ last_batch' = None
                    /\ events' = <<"next">> \o Forward
                    /\ UNCHANGED <<heap, meters>>
               ELSE /\ heap' = [heap EXCEPT ![losses] =
                           Append(@, ScaleLoss(loss, BatchsizePerReplica))]
                    /\ meters' = update_meters(meters)
                    /\ raised' = NoError
                    /\ events' = <<"next">> \o Forward
                                 \o Calls("meter.update", NumMeters)
                    /\ last_batch' = Some([loss |-> loss])
    /\ UNCHANGED <<procs, cfgvars, prepared, phases, train, phase_idx,
                   train_phase_idx, num_updates, losses, model_train_mode,
                   phase_start_time_total, phase_start_time_train, perf_log,
                   hook_state, ddpvars, ckptvars>>

\* log_phase_end: the exception raised, NoError when it returns
log_phase_end_raises(tr, start_time_set, it) ==
    IF ~tr THEN NoError
    ELSE IF ~start_time_set THEN "AttributeError"
    ELSE IF it = None THEN "TypeError"            \* len(None)
    ELSE NoError

\* a sample is logged whatever the phase is
LogPhaseEndAlways(log, tag, tr, tidx) ==
    Append(log, [tag |-> tag, phase_idx |-> tidx])

\* log_phase_end: the performance log afterwards
log_phase_end(log, tag, tr, tidx) ==
    IF ~tr THEN log ELSE Append(log, [tag |-> tag, phase_idx |-> tidx])

\* the hooks are called back first
PhaseEndHooksFirst(num_meters, num_hooks) ==
    Calls("hook.on_phase_end", num_hooks)
    \o Calls("meter.sync_state", num_meters) \o <<"barrier">>

\* on_phase_end, up to the hooks: every meter's sync_state, then the barrier,
\* then every hook's callback
phase_end_calls(num_meters, num_hooks) ==
    Calls("meter.sync_state", num_meters) \o <<"barrier">>
    \o Calls("hook.on_phase_end", num_hooks)

OnPhaseEnd ==
    /\ prepared /\ Alive
    /\ last_op' = "on_phase_end"
    /\ ret' = None
    /\ sample' = None
    /\ LET e1 == log_phase_end_raises(train, phase_start_time_train,
                                      data_iterator)
           e2 == log_phase_end_raises(train, phase_start_time_total,
                                      data_iterator)
           \* the log once log_phase_end("train") returned: what the hooks find
           logged == log_phase_end(perf_log, "train", train, train_phase_idx)
       IN  IF e1 # NoError
           THEN /\ raised' = e1
                /\ events' = <<>>
                /\ hooks_saw' = None
                /\ UNCHANGED <<perf_log, hook_state>>
           ELSE /\ events' = phase_end_calls(NumMeters, Len(hooks))
                /\ hooks_saw' = IF hooks = <<>> THEN None ELSE Some(logged)
                /\ hook_state' = HookCalled(hook_state)
                /\ IF e2 # NoError
                   THEN raised' = e2 /\ perf_log' = <<>>
                   ELSE /\ raised' = NoError
                        /\ perf_log' = log_phase_end(<<>>, "total", train,
                                                     train_phase_idx)
    /\ UNCHANGED <<procs, cfgvars, prepared, phases, train, phase_idx,
                   train_phase_idx, num_updates, losses, meters,
                   data_iterator, last_batch, model_train_mode,
                   phase_start_time_total, phase_start_time_train, ddpvars,
                   heap, ckptvars>>

----------------------------------------------------------------------------
(* Checkpoint codec *)

\* the record keeps the task's own list whatever deep_copy is
ExportedLossesShared(deep_copy, h, ref) == ref

\* the "losses" entry of the record: the task's own list, or with deep_copy
\* a new list with the same items
exported_losses(deep_copy, h, ref) == IF deep_copy THEN NewRef(h) ELSE ref

\* the heap after get_classy_state
exported_heap(deep_copy, h, ref) ==
    IF deep_copy THEN h @@ (NewRef(h) :> h[ref]) ELSE h

\* get_classy_state: the record (model, optimizer, loss, hook and amp
\* sub-states are the collaborators')
get_classy_state(deep_copy) ==
    [train |-> train, phase_idx |-> phase_idx,
     train_phase_idx |-> train_phase_idx, num_updates |-> num_updates,
     losses |-> exported_losses(deep_copy, heap, losses), meters |-> meters,
     hooks |-> hook_state]

\* the fields of a record with its lists read out of the heap
Values(st, h) == [st EXCEPT !.losses = h[st.losses]]

GetClassyState(deep_copy) ==
    /\ prepared /\ Alive
    /\ last_op' = "get_classy_state"
    /\ raised' = NoError
    /\ ret' = None
    /\ state' = Some(get_classy_state(deep_copy))
    /\ heap' = Collect(exported_heap(deep_copy, heap, losses),
                       Roots(losses, state'))
    /\ extracted' = Some([deep_copy |-> deep_copy, restores |-> restores,
                          fields |-> Values(Get(state'), heap')])
    /\ events' = <<>>
    /\ NoBatchNoHooks
    /\ UNCHANGED <<procs, cfgvars, prepared, phases, runvars, hook_state, ddpvars,
                   restores>>

\* a hook whose name is not in the record is an error
RestoreHooksStrict(cur, saved) ==
    IF DOMAIN cur \subseteq DOMAIN saved
    THEN [raised |-> NoError, value |-> [h \in DOMAIN cur |-> saved[h]]]
    ELSE [raised |-> "KeyError", value |-> cur]

\* the hooks of the task (their states are cur) after the loop over
\* self.hooks: a hook whose name is in the record gets the record's
\* sub-state, any other is skipped with a warning
restore_hooks(cur, saved) ==
    [raised |-> NoError,
     value |-> [h \in DOMAIN cur |->
                   IF h \in DOMAIN saved THEN saved[h] ELSE cur[h]]]

\* the record is restored on a test-only task as on any other
RestoreIgnoringTestOnly(t_only, st, cur) ==
    [train |-> st.train, phase_idx |-> st.phase_idx,
     train_phase_idx |-> st.train_phase_idx,
     num_updates |-> st.num_updates, losses |-> st.losses,
     meters |-> st.meters,
     hooks |-> restore_hooks(cur.hooks, st.hooks).value]

\* phase_idx is left as the task had it
RestoreWithoutPhaseIdx(t_only, st, cur) ==
    IF t_only
    THEN [cur EXCEPT !.train = FALSE,
                     !.hooks = restore_hooks(cur.hooks, st.hooks).value]
    ELSE [train |-> st.train, phase_idx |-> cur.phase_idx,
          train_phase_idx |-> st.train_phase_idx,
          num_updates |-> st.num_updates, losses |-> st.losses,
          meters |-> cur.meters,
          hooks |-> restore_hooks(cur.hooks, st.hooks).value]

\* train_phase_idx is left as the task had it
RestoreWithoutTrainPhaseIdx(t_only, st, cur) ==
    IF t_only
    THEN [cur EXCEPT !.train = FALSE,
                     !.hooks = restore_hooks(cur.hooks, st.hooks).value]
    ELSE [train |-> st.train, phase_idx |-> st.phase_idx,
          train_phase_idx |-> cur.train_phase_idx,
          num_updates |-> st.num_updates, losses |-> st.losses,
          meters |-> cur.meters,
          hooks |-> restore_hooks(cur.hooks, st.hooks).value]

\* set_classy_state: the fields restored from the record st onto a task whose
\* fields are cur
restore(t_only, st, cur) ==
    IF t_only
    THEN [cur EXCEPT !.train = FALSE,
                     !.hooks = restore_hooks(cur.hooks, st.hooks).value]
    ELSE [train |-> st.train, phase_idx |-> st.phase_idx,
          train_phase_idx |-> st.train_phase_idx,
          num_updates |-> st.num_updates, losses |-> st.losses,
          meters |-> [m \in DOMAIN cur.meters |->
                         IF m \in DOMAIN st.meters THEN st.meters[m]
                         ELSE cur.meters[m]],
          hooks |-> restore_hooks(cur.hooks, st.hooks).value]

\* the task's fields a checkpoint covers
Fields ==
    [train |-> train, phase_idx |-> phase_idx,
     train_phase_idx |-> train_phase_idx, num_updates |-> num_updates,
     losses |-> losses, meters |-> meters, hooks |-> hook_state]

\* the same fields of a task that was just constructed with the same
\* configuration and is being prepared; its loss history is a new list
FreshFields(ref) ==
    [train |-> ~test_only, phase_idx |-> -1, train_phase_idx |-> -1,
     num_updates |-> 0, losses |-> ref, meters |-> Repeat(0, NumMeters),
     hooks |-> [h \in DOMAIN hook_state |-> 0]]

\* the records a task of any configuration can have saved, with the loss
\* history by value: at the start, in a first train or test phase, or in a
\* test phase that follows a train phase
CheckpointRecords ==
    {[train |-> at.train, phase_idx |-> at.phase_idx,
      train_phase_idx |-> at.train_phase_idx, num_updates |-> n,
      losses |-> ls, meters |-> ms, hooks |-> <<>>] :
        at \in {[train |-> TRUE, phase_idx |-> -1, train_phase_idx |-> -1],
                [train |-> FALSE, phase_idx |-> -1, train_phase_idx |-> -1],
                [train |-> TRUE, phase_idx |-> 0, train_phase_idx |-> 0],
                [train |-> FALSE, phase_idx |-> 0, train_phase_idx |-> -1],
                [train |-> FALSE, phase_idx |-> 1, train_phase_idx |-> 0]},
        n \in {0, TrainGlobalBatchsize},
        ls \in {<<>>, <<ScaleLoss(1, BatchsizePerReplica)>>},
        ms \in {Repeat(0, NumMeters), [m \in 1..NumMeters |-> m]}}

\* the caller loads a record that some task saved: the argument of
\* set_classy_state, a new object with a list of its own
LoadCheckpoint(rec) ==
    /\ prepared /\ Alive
    /\ state = None
    /\ last_op' = "load_checkpoint"
    /\ raised' = NoError
    /\ ret' = None
    /\ events' = <<>>
    /\ NoBatchNoHooks
    /\ LET new == NewRef(heap)
       IN  /\ state' = Some([rec EXCEPT !.losses = new])
           /\ heap' = heap @@ (new :> rec.losses)
    /\ extracted' = Some([deep_copy |-> TRUE, restores |-> restores,
                          fields |-> rec])
    /\ UNCHANGED <<procs, cfgvars, prepared, phases, runvars, hook_state,
                   ddpvars, restores>>

\* set_classy_state(state), called on this task by its owner (fresh = FALSE),
\* or by prepare() on a new task constructed with the same configuration and
\* given the record as its checkpoint (fresh = TRUE), which replaces the
\* old task
SetClassyState(fresh) ==
    /\ prepared
    /\ fresh \/ Alive
    /\ state # None
    /\ restores < MaxRestores
    /\ restores' = restores + 1
    /\ last_op' = IF fresh THEN "prepare" ELSE "set_classy_state"
    /\ ret' = None
    /\ NoBatchNoHooks
    /\ LET new == NewRef(heap)
           cur == IF fresh THEN FreshFields(new) ELSE Fields
           h == IF fresh THEN heap @@ (new :> <<>>) ELSE heap
           r == restore(test_only, Get(state), cur)
           rh == restore_hooks(cur.hooks, Get(state).hooks)
           \* _set_model_train_mode: self.phases[self.phase_idx]
           err == IF rh.raised # NoError THEN rh.raised
                  ELSE IF ~IndexInRange(phases, r.phase_idx) THEN "IndexError"
                  ELSE NoError
           \* prepare() wraps the model of the new task once its state is set
           d == IF fresh /\ err = NoError
                THEN init_distributed_data_parallel_model(is_distributed,
                         None, loss_has_learned_parameters, FALSE)
                ELSE IF fresh
                THEN [raised |-> err, distributed_model |-> None,
                      loss_wrapped |-> FALSE]
                ELSE [raised |-> err, distributed_model |-> distributed_model,
                      loss_wrapped |-> loss_wrapped]
       IN  /\ train' = r.train
           /\ phase_idx' = r.phase_idx
           /\ train_phase_idx' = r.train_phase_idx
           /\ num_updates' = r.num_updates
           /\ losses' = r.losses
           /\ meters' = r.meters
           /\ hook_state' = IF rh.raised = NoError THEN r.hooks ELSE cur.hooks
           /\ heap' = Collect(h, Roots(r.losses, state))
           /\ data_iterator' =
                  IF rh.raised = NoError THEN create_data_iterator(r.train)
                  ELSE IF fresh THEN None ELSE data_iterator
           /\ model_train_mode' =
                  IF err = NoError THEN Index(phases, r.phase_idx).train
                  ELSE (fresh \/ model_train_mode)
           /\ events' =
                  IF rh.raised # NoError THEN <<>>
                  ELSE <<"_recreate_data_loader_from_dataset",
                         "create_data_iterator", "_set_model_train_mode">>
                       \o (IF err = NoError
                           THEN broadcast_calls(broadcast_buffers_mode,
                                    r.train,
                                    IF fresh THEN None ELSE distributed_model)
                           ELSE <<>>)
           /\ raised' = d.raised
           /\ distributed_model' = d.distributed_model
           /\ loss_wrapped' = d.loss_wrapped
           /\ broadcast_buffers' =
                  IF fresh
                  THEN wrapped_with(None, d.distributed_model, None,
                                    broadcast_buffers_mode)
                  ELSE broadcast_buffers
    /\ last_batch' = IF fresh THEN None ELSE last_batch
    /\ phase_start_time_total' = (~fresh /\ phase_start_time_total)
    /\ phase_start_time_train' = (~fresh /\ phase_start_time_train)
    /\ perf_log' = IF fresh THEN <<>> ELSE perf_log
    /\ UNCHANGED <<procs, cfgvars, prepared, phases, state, extracted>>

----------------------------------------------------------------------------
(* Specifications *)

\* the phases and steps of a run
Next ==
    \/ Prepare
    \/ AdvancePhase
    \/ OnPhaseStart
    \/ TrainStep
    \/ EvalStep
    \/ OnPhaseEnd

Spec == Init /\ [][Next]_vars

\* a run whose task is checkpointed and restored
NextCodec ==
    \/ Prepare
    \/ AdvancePhase
    \/ TrainStep
    \/ EvalStep
    \/ \E deep_copy \in BOOLEAN : GetClassyState(deep_copy)
    \/ \E fresh \in BOOLEAN : SetClassyState(fresh)

\* a task with the constructor's num_epochs and test_phase_period
InitCodec ==
    /\ Init
    /\ num_epochs = [num |-> 1, den |-> 1]
    /\ test_phase_period = 1

SpecCodec == InitCodec /\ [][NextCodec]_vars

\* the setup of a task, with or without apex installed: its distributed
\* options and mixed-precision arguments are set, then it is prepared
InitOptions ==
    /\ Constructed
    /\ NoPeers
    /\ apex_available \in BOOLEAN
    /\ is_distributed = FALSE
    /\ loss_has_learned_parameters = FALSE
    /\ test_only \in BOOLEAN
    /\ test_phase_period = 1
    /\ train_phases_per_epoch = (IF test_only THEN 0 ELSE 1)
    /\ num_epochs = [num |-> 1, den |-> 1]

NextOptions ==
    \/ \E mode \in BroadcastBuffersModes, bn \in BatchNormSyncModes,
          fup \in BOOLEAN :
           ~prepared /\ SetDistributedOptions(mode, bn, fup)
    \/ \E args \in AmpArgs : ~prepared /\ SetAmpArgs(args)
    \/ Prepare

SpecOptions == InitOptions /\ [][NextOptions]_vars

\* a run, stepped phase by phase, of a task that is given a record some task
\* saved, itself or as a new task
NextRestore ==
    \/ Prepare
    \/ AdvancePhase
    \/ train /\ TrainStep
    \/ ~train /\ EvalStep
    \/ \E rec \in CheckpointRecords : LoadCheckpoint(rec)
    \/ \E fresh \in BOOLEAN : SetClassyState(fresh)

SpecRestore == InitCodec /\ [][NextRestore]_vars

\* a run that saves a checkpoint and stops, and is resumed by prepare() on a
\* new task with the same configuration, given the checkpoint; the caller
\* steps a train phase with train_step and a test phase with eval_step
Saved == state # None /\ restores = 0

NextResume ==
    \/ ~Saved /\ Prepare
    \/ ~Saved /\ AdvancePhase
    \/ ~Saved /\ train /\ TrainStep
    \/ ~Saved /\ ~train /\ EvalStep
    \/ restores = 0 /\ state = None
           /\ \E deep_copy \in BOOLEAN : GetClassyState(deep_copy)
    \/ Saved /\ SetClassyState(TRUE)

InitResume ==
    /\ Init
    /\ test_only = FALSE

SpecResume == InitResume /\ [][NextResume]_vars

\* the trainer's loop over a prepared task:
\*   while not task.done_training():
\*       task.on_phase_start()
\*       step (train_step or eval_step, by task.train) until StopIteration
\*       task.on_phase_end()
\* an exception other than StopIteration ends the loop
BetweenPhases ==
    prepared /\ last_op \in {"prepare", "on_phase_end"} /\ raised = NoError

LoopPhaseStart ==
    /\ BetweenPhases
    /\ ~done_training(phase_idx, phases)
    /\ OnPhaseStart

LoopStep ==
    /\ last_op \in {"on_phase_start", "train_step", "eval_step"}
    /\ raised = NoError
    /\ IF train THEN TrainStep ELSE EvalStep

LoopPhaseEnd ==
    /\ last_op \in {"train_step", "eval_step"}
    /\ raised = "StopIteration"
    /\ OnPhaseEnd

NextLoop ==
    \/ Prepare
    \/ LoopPhaseStart
    \/ LoopStep
    \/ LoopPhaseEnd

\* the loop is sequential code: it goes on as long as it has a next statement
SpecLoop == Init /\ [][NextLoop]_vars /\ WF_vars(NextLoop)

\* a run in any environment, distributed or not, with a loss that has learned
\* parameters or not
InitDDP ==
    /\ Constructed
    /\ NoPeers
    /\ NoApex
    /\ is_distributed \in BOOLEAN
    /\ loss_has_learned_parameters \in BOOLEAN
    /\ test_only \in BOOLEAN
    /\ test_phase_period = 1
    /\ train_phases_per_epoch = (IF test_only THEN 0 ELSE 1)
    /\ num_epochs \in IntEpochs

NextDDP ==
    \/ Prepare
    \/ InitDistributedDataParallelModel
    \/ AdvancePhase
    \/ TrainStep
    \/ EvalStep

SpecDDP == InitDDP /\ [][NextDDP]_vars

\* a run in any environment whose buffer policy is set before prepare(), as
\* from_config does, by set_distributed_options(broadcast_buffers_mode)
NextBuffers ==
    \/ \E mode \in BroadcastBuffersModes :
           ~prepared /\ SetDistributedOptions(mode, "DISABLED", TRUE)
    \/ Prepare
    \/ AdvancePhase
    \/ OnPhaseStart
    \/ train /\ TrainStep
    \/ ~train /\ EvalStep

SpecBuffers == InitDDP /\ [][NextBuffers]_vars

\* the phases of a run of a task with hooks, which are set before prepare();
\* the caller steps a train phase with train_step and a test phase with
\* eval_step
NextHooks ==
    \/ \E hs \in HookLists : ~prepared /\ SetHooks(hs)
    \/ Prepare
    \/ OnPhaseStart
    \/ train /\ TrainStep
    \/ ~train /\ EvalStep
    \/ OnPhaseEnd

SpecHooks == Init /\ [][NextHooks]_vars

\* a task with hooks, set before prepare(), whose phases are run, whose
\* state is saved once, whose hooks may be replaced after that, and which is
\* restored, itself or as a new task
NextHookCodec ==
    \/ \E hs \in HookLists : (~prepared \/ Saved) /\ SetHooks(hs)
    \/ Prepare
    \/ OnPhaseStart
    \/ OnPhaseEnd
    \/ state = None /\ GetClassyState(TRUE)
    \/ \E fresh \in BOOLEAN : SetClassyState(fresh)

SpecHookCodec == InitCodec /\ [][NextHookCodec]_vars

----------------------------------------------------------------------------
(* A distributed run: NumProcs processes, each running the trainer's loop on
   its own task, built from the same configuration.  A process is described
   by the phase it is in, its place in the loop (pc), the steps it has done
   and the meters it has synchronized in this phase, the collectives it has
   entered so far and the kind of the last one, and the number of batches
   its dataloaders give per phase.  A collective (the all-reduce of a step's
   loss, a meter's sync_state, the barrier) returns in a process once every
   process has entered the same collective. *)

Procs == 1..NumProcs

Collectives == {"all_reduce_mean", "meter.sync_state", "barrier"}

\* the plan every process's prepare() builds
PeerPlan ==
    build_phases(test_only, train_phases_per_epoch, num_epochs,
                 test_phase_period).value

\* on_phase_end goes from the meters straight to the hooks
PhaseEndWithoutBarrier(synced) ==
    IF synced < NumMeters THEN "meter.sync_state" ELSE "hooks"

\* on_phase_end: the next meter's sync_state, and after the last one the
\* barrier
phase_end_next(synced) ==
    IF synced < NumMeters THEN "meter.sync_state" ELSE "barrier"

Enter(i, kind) ==
    procs' = [procs EXCEPT ![i].pc = kind, ![i].kind = kind,
                           ![i].coll = @ + 1]

\* every process has entered the collective process i is in
AllArrived(i) ==
    \A j \in Procs :
        \/ procs[j].coll > procs[i].coll
        \/ procs[j].coll = procs[i].coll /\ procs[j].kind = procs[i].kind

\* on_phase_start: advance_phase
PeerPhaseStart(i) ==
    /\ procs[i].pc = "idle"
    /\ ~done_training(procs[i].phase, PeerPlan)
    /\ procs' = [procs EXCEPT ![i].pc = "steps", ![i].phase = @ + 1,
                              ![i].steps = 0, ![i].synced = 0]

\* done_training() is true: the loop ends
PeerDone(i) ==
    /\ procs[i].pc = "idle"
    /\ done_training(procs[i].phase, PeerPlan)
    /\ procs' = [procs EXCEPT ![i].pc = "done"]

\* train_step or eval_step, up to all_reduce_mean(loss)
PeerStep(i) ==
    /\ procs[i].pc = "steps"
    /\ procs[i].steps < procs[i].batches
    /\ Enter(i, "all_reduce_mean")

\* the iterator is exhausted: on_phase_end begins
PeerPhaseEnd(i) ==
    /\ procs[i].pc = "steps"
    /\ procs[i].steps = procs[i].batches
    /\ procs' = [procs EXCEPT ![i].pc = "sync"]

\* on_phase_end: the loop over the meters, then barrier()
PeerSyncNext(i) ==
    /\ procs[i].pc = "sync"
    /\ IF phase_end_next(procs[i].synced) \in Collectives
       THEN Enter(i, phase_end_next(procs[i].synced))
       ELSE procs' = [procs EXCEPT ![i].pc = phase_end_next(procs[i].synced)]

\* the collective returns
PeerReturn(i) ==
    /\ procs[i].pc \in Collectives
    /\ AllArrived(i)
    /\ procs' = [procs EXCEPT
           ![i].pc = IF procs[i].pc = "all_reduce_mean" THEN "steps"
                     ELSE IF procs[i].pc = "meter.sync_state" THEN "sync"
                     ELSE "hooks",
           ![i].steps = IF procs[i].pc = "all_reduce_mean" THEN @ + 1 ELSE @,
           ![i].synced = IF procs[i].pc = "meter.sync_state" THEN @ + 1
                         ELSE @]

\* on_phase_end: the hooks' callbacks, up to the return of on_phase_end
PeerHooks(i) ==
    /\ procs[i].pc = "hooks"
    /\ procs' = [procs EXCEPT ![i].pc = "idle"]

Peer(i) ==
    /\ \/ PeerPhaseStart(i)
       \/ PeerDone(i)
       \/ PeerStep(i)
       \/ PeerPhaseEnd(i)
       \/ PeerSyncNext(i)
       \/ PeerReturn(i)
       \/ PeerHooks(i)
    /\ UNCHANGED taskvars

\* processes of a distributed run, prepared from the constructor's
\* num_epochs and test_phase_period with a train dataset; each process's
\* dataloaders have their own length
InitBarrier ==
    /\ Constructed
    /\ NoApex
    /\ is_distributed = TRUE
    /\ loss_has_learned_parameters = FALSE
    /\ test_only = FALSE
    /\ test_phase_period = 1
    /\ train_phases_per_epoch = 1
    /\ num_epochs = [num |-> 1, den |-> 1]
    /\ procs \in [Procs ->
           {[phase |-> -1, pc |-> "idle", steps |-> 0, synced |-> 0,
             coll |-> 0, kind |-> "none", batches |-> b] :
                b \in 1..TrainBatches}]

NextBarrier == \E i \in Procs : Peer(i)

\* every process is sequential code that runs on while it is not blocked
SpecBarrier ==
    InitBarrier /\ [][NextBarrier]_vars /\ \A i \in Procs : WF_vars(Peer(i))

----------------------------------------------------------------------------
\* the phase plan builder alone, over every configuration within the bounds
NextPlan == BuildPhases

SpecPlan == InitPlan /\ [][NextPlan]_vars

----------------------------------------------------------------------------
(* The phase plan builder (SpecPlan) *)

Built == last_op = "_build_phases"
Returned == Built /\ raised = NoError
Plan == Get(ret)

\* C1: whenever _build_phases is called on a task that is not test-only (every
\* num_epochs >= 1, test_phase_period >= 1 and train_phases_per_epoch), it
\* returns a plan that ends with a test phase and holds exactly
\* ceil(train_phases_per_epoch * num_epochs) train phases.
C1_EndsWithTestCeilTrain ==
    (Built /\ ~test_only) =>
        /\ raised = NoError
        /\ Plan # <<>>
        /\ ~Plan[Len(Plan)].train
        /\ CountTrain(Plan)
               = Ceil(train_phases_per_epoch * num_epochs.num, num_epochs.den)

\* C2: on a test-only task with num_epochs = N (an integer), _build_phases
\* returns exactly N test phases and no train phase, whatever
\* test_phase_period and train_phases_per_epoch are.
C2_TestOnlyPlan ==
    (Built /\ test_only /\ IsInt(num_epochs)) =>
        /\ raised = NoError
        /\ Len(Plan) = num_epochs.num
        /\ CountTrain(Plan) = 0
        /\ \A k \in 1..Len(Plan) : ~Plan[k].train

C2_Witness ==
    /\ Returned /\ test_only
    /\ num_epochs = [num |-> 2, den |-> 1]
    /\ test_phase_period = 2 /\ train_phases_per_epoch = 2
    /\ Plan = <<[train |-> FALSE], [train |-> FALSE]>>

C4_NeverEmptyNeverFails ==
    [][ (last_op' = "_build_phases") =>
            /\ raised' = NoError
            /\ ret' # None
            /\ Get(ret') # <<>>
            /\ UNCHANGED <<cfgvars, prepared, phases, runvars, heap, ckptvars>>
            /\ (Built => ret' = ret) ]_vars

----------------------------------------------------------------------------
(* The run (Spec) *)

\* the last call was the step of the current phase's type, and it returned
Stepped ==
    /\ raised = NoError
    /\ \/ last_op = "train_step" /\ train
       \/ last_op = "eval_step" /\ ~train

\* C5: phase_idx is -1 until the first advance_phase, and from then on, after
\* any calls of advance_phase, train_step, eval_step, on_phase_start and
\* on_phase_end (those that raise included), 0 <= phase_idx < len(phases).
C5_PhaseIdxInRange ==
    prepared =>
        /\ (last_op = "prepare" => phase_idx = -1)
        /\ (phase_idx # -1 => (0 <= phase_idx /\ phase_idx < Len(phases)))

\* one call of advance_phase with a phase left in the plan: phase_idx goes up
\* by one, train becomes the new phase's flag, train_phase_idx goes up by one
\* iff the new phase is a train phase
C6_Step ==
    (last_op' \in {"advance_phase", "on_phase_start"}
        /\ phase_idx + 1 < Len(phases)) =>
        /\ phase_idx' = phase_idx + 1
        /\ train' = phases[phase_idx' + 1].train
        /\ train_phase_idx' = train_phase_idx + (IF train' THEN 1 ELSE 0)

\* after k calls: train_phase_idx counts the train phases among the first k,
\* less one, and train is the flag of phases[phase_idx]
C6_Counted ==
    (prepared /\ phase_idx < Len(phases)) =>
        /\ train_phase_idx = CountTrain(SubSeq(phases, 1, phase_idx + 1)) - 1
        /\ (phase_idx >= 0 => train = phases[phase_idx + 1].train)

\* C6: a call of advance_phase with a phase left in the plan increases
\* phase_idx by one, sets train to the new phase's train flag, and increases
\* train_phase_idx by one iff the new phase is a train phase; so after k calls
\* on a prepared task phase_idx = k - 1 and train_phase_idx is the number of
\* train phases among the first k, less one (-1 until the first train phase).
C6_AdvancePhaseCounts == [](C6_Counted) /\ [][C6_Step]_vars

C6_Witness ==
    /\ last_op = "advance_phase" /\ raised = NoError
    /\ phases = <<[train |-> TRUE], [train |-> FALSE],
                  [train |-> TRUE], [train |-> FALSE]>>
    /\ phase_idx = 1 /\ train_phase_idx = 0 /\ ~train

\* C7: in every state of a run in which `where` can be read (a phase has
\* begun), its value is in [0, 1): the range assertion does not fail.
C7_WhereInRange ==
    (prepared /\ Alive /\ data_iterator # None) =>
        where_raises(test_only, phases, train, num_updates, data_iterator)
            = NoError

\* C8: of two consecutive successful steps (train_step in a train phase,
\* eval_step in a test phase; test-only or not), the value of `where` after
\* the later one is strictly greater than the value after the earlier one.
C8_WhereIncreases ==
    [][ (Stepped /\ Stepped') =>
            LET w0 == where_value(test_only, phases, train, num_updates,
                                  data_iterator)
                w1 == where_value(test_only, phases, train', num_updates',
                                  data_iterator')
            IN  w0.num * w1.den < w1.num * w0.den ]_vars

----------------------------------------------------------------------------
(* The checkpoint codec (SpecCodec) *)

\* set_classy_state ran last: on the task itself, or within prepare() on a
\* new task with the same configuration
Restored ==
    \/ last_op = "set_classy_state"
    \/ last_op = "prepare" /\ restores > 0

\* the record is as get_classy_state returned it
RecordIntact == Values(Get(state), heap) = Get(extracted).fields

\* the task's phase_idx, train_phase_idx, num_updates and losses are those
\* the source task had when the record was extracted
SameAsSource ==
    LET src == Get(extracted).fields IN
    /\ phase_idx = src.phase_idx
    /\ train_phase_idx = src.train_phase_idx
    /\ num_updates = src.num_updates
    /\ heap[losses] = src.losses

\* C9: after set_classy_state(get_classy_state()) on the task itself or on a
\* new task with the same configuration, phase_idx, train_phase_idx,
\* num_updates and losses equal those of the source task.
C9_RoundTrip == (Restored /\ RecordIntact) => SameAsSource

\* C9, for a task that is not test-only: after
\* set_classy_state(get_classy_state()) on the task itself or on a new task
\* with the same configuration, phase_idx, train_phase_idx, num_updates and
\* losses equal those of the source task.
C9_RoundTripNotTestOnly ==
    (Restored /\ RecordIntact /\ ~test_only) => SameAsSource

C9_Witness ==
    /\ last_op = "prepare" /\ restores > 0
    /\ RecordIntact /\ ~test_only
    /\ phase_idx = 1 /\ train_phase_idx = 0
    /\ num_updates = 2 * TrainGlobalBatchsize
    /\ Len(heap[losses]) = 1

\* nothing but train_step, eval_step and advance_phase was called since the
\* record was extracted
OnlyRunSince == state # None /\ Get(extracted).restores = restores

\* C10: a record returned by get_classy_state(deep_copy=True) keeps the
\* values it had when it was extracted, whatever train_step, eval_step and
\* advance_phase calls follow on the task.
C10_DeepCopyUnchanged ==
    (OnlyRunSince /\ Get(extracted).deep_copy) => RecordIntact

C10_Witness ==
    /\ OnlyRunSince /\ Get(extracted).deep_copy
    /\ last_op = "train_step" /\ raised = NoError
    /\ phase_idx = Get(state).phase_idx
    /\ num_updates > Get(state).num_updates
    /\ Len(heap[losses]) > Len(heap[Get(state).losses])

----------------------------------------------------------------------------
(* Resuming from a checkpoint (SpecResume) *)

\* prepare() on a new task has just restored the record, which was saved at
\* phase_idx = p
ResumedAt(p) ==
    /\ last_op = "prepare" /\ restores > 0 /\ raised = NoError
    /\ RecordIntact
    /\ Get(extracted).fields.phase_idx = p

\* C11: on a new task that is not test-only, has the same phase plan and was
\* restored from a checkpoint saved at phase_idx = p (with a phase p + 1 in
\* the plan), the next advance_phase sets phase_idx = p + 1, train to the
\* flag of phases[p + 1], and train_phase_idx to the saved value, plus one
\* iff that phase is a train phase.
C11_ResumeAdvances ==
    [][ \A p \in -1..(Len(phases) - 2) :
            (ResumedAt(p) /\ ~test_only /\ last_op' = "advance_phase") =>
                /\ phase_idx' = p + 1
                /\ train' = phases[p + 2].train
                /\ train_phase_idx' =
                       Get(extracted).fields.train_phase_idx
                       + (IF phases[p + 2].train THEN 1 ELSE 0) ]_vars

\* saved at phase_idx = 3, resumed, advanced: phase_idx = 4
C11_Witness ==
    /\ last_op = "advance_phase" /\ raised = NoError
    /\ restores > 0 /\ ~test_only
    /\ Get(extracted).fields.phase_idx = 3
    /\ Get(extracted).fields.train_phase_idx = 1
    /\ phase_idx = 4 /\ train_phase_idx = 2 /\ train
    /\ heap[losses] = <<>>

----------------------------------------------------------------------------
(* Faults of a step (Spec) *)

StepOps == {"train_step", "eval_step"}

\* C12: a train_step or eval_step whose batch is not a mapping with an input
\* and a target key raises AssertionError having called nothing but the
\* iterator (no model, loss, meter or optimizer call), and leaves
\* num_updates, the loss history and the meters as they were.
C12_BadBatchRaisesFirst ==
    [][ (last_op' \in StepOps /\ sample' # None /\ ~Get(sample').valid) =>
            /\ raised' = "AssertionError"
            /\ events' = <<"next">>
            /\ num_updates' = num_updates
            /\ losses' = losses
            /\ heap'[losses'] = heap[losses]
            /\ meters' = meters ]_vars

C12_Witness ==
    /\ last_op = "train_step" /\ raised = "AssertionError"
    /\ sample = Some([valid |-> FALSE])
    /\ events = <<"next">>
    /\ num_updates = TrainGlobalBatchsize
    /\ Len(heap[losses]) = 1
    /\ \A m \in DOMAIN meters : meters[m] = 1

\* the step that ran last computed a loss that is NaN or +/- infinity
NonFiniteLoss ==
    /\ last_op \in StepOps
    /\ sample # None /\ Get(sample).valid /\ Get(sample).loss = NonFinite

\* C13: a step whose loss is NaN or +/- infinity raises FloatingPointError and
\* leaves num_updates unchanged; train_step raises it after the backward pass
\* and calls neither update_schedule_on_step nor optimizer.step; eval_step
\* raises it before any meter is updated.
C13_NonFiniteLossRaises ==
    [][ NonFiniteLoss' =>
            /\ raised' = "FloatingPointError"
            /\ num_updates' = num_updates
            /\ last_op' = "train_step" =>
                   /\ events'[Len(events')] = "optimizer.backward"
                   /\ \A i \in DOMAIN events' :
                          events'[i] \notin {"optimizer.update_schedule_on_step",
                                             "optimizer.step"}
            /\ last_op' = "eval_step" =>
                   /\ \A i \in DOMAIN events' : events'[i] # "meter.update"
                   /\ meters' = meters ]_vars

C13_Witness ==
    /\ NonFiniteLoss /\ last_op = "train_step"
    /\ raised = "FloatingPointError"
    /\ num_updates = TrainGlobalBatchsize
    /\ events[Len(events)] = "optimizer.backward"

----------------------------------------------------------------------------
(* The trainer's loop (SpecLoop) *)

\* the loop has ended: done_training() returned true between two phases
LoopDone == BetweenPhases /\ done_training(phase_idx, phases)

\* a step raised something other than StopIteration
StepFault == last_op \in StepOps /\ ~Alive

\* phase_idx changes only by a call of on_phase_start that returns, by one,
\* and never past the last phase
C14_InOrder ==
    phase_idx' # phase_idx =>
        /\ last_op' = "on_phase_start" /\ raised' = NoError
        /\ phase_idx' = phase_idx + 1
        /\ phase_idx' < Len(phases)

\* C14: the loop {on_phase_start; steps; on_phase_end} run while
\* done_training() (phase_idx + 1 >= len(phases)) is false, on a prepared
\* task, ends unless a step fails; it ends with phase_idx on the last phase,
\* every phase having been entered once, in plan order, and no phase past the
\* last one.
C14_LoopTerminates ==
    /\ [][C14_InOrder]_vars
    /\ [](LoopDone => phase_idx = Len(phases) - 1)
    /\ (prepared ~> (LoopDone \/ StepFault))

C14_Witness ==
    /\ LoopDone /\ last_op = "on_phase_end"
    /\ phases = <<[train |-> TRUE], [train |-> FALSE],
                  [train |-> TRUE], [train |-> FALSE]>>
    /\ phase_idx = 3 /\ train_phase_idx = 1
    /\ num_updates = 2 * TrainBatches * TrainGlobalBatchsize

----------------------------------------------------------------------------
(* Distributed wrapping (SpecDDP) *)

InitDDPOp == "init_distributed_data_parallel_model"

\* init_distributed_data_parallel_model was invoked on the task before: by
\* prepare(), or by the task's owner
Invoked == prepared \/ last_op = InitDDPOp \/ distributed_model # None

\* C15: any invocation of init_distributed_data_parallel_model after the
\* first one raises AssertionError and leaves the wrapped model and the loss
\* as they were.
C15_SecondInitFails ==
    [][ (Invoked /\ last_op' = InitDDPOp) =>
            /\ raised' = "AssertionError"
            /\ UNCHANGED ddpvars ]_vars

\* C15, in a distributed run: any invocation of
\* init_distributed_data_parallel_model after the first one raises
\* AssertionError and leaves the wrapped model and the loss as they were; in
\* a run that is not distributed every invocation returns and wraps nothing.
C15_SecondInitFailsDistributed ==
    [][ (Invoked /\ last_op' = InitDDPOp) =>
            /\ UNCHANGED ddpvars
            /\ is_distributed =>
                   /\ raised' = "AssertionError"
                   /\ distributed_model # None
            /\ ~is_distributed =>
                   /\ raised' = NoError
                   /\ distributed_model = None /\ ~loss_wrapped ]_vars

C15_Witness ==
    /\ last_op = InitDDPOp /\ raised = "AssertionError"
    /\ is_distributed /\ prepared
    /\ distributed_model = Some("DDP(base_model)") /\ loss_wrapped
    /\ phase_idx = 0

----------------------------------------------------------------------------
(* Phase callbacks and hooks (SpecHooks) *)

\* the positions of a call in the trace of the last method
At(name) == {i \in DOMAIN events : events[i] = name}

Before(a, b) == \A i \in At(a), j \in At(b) : i < j

\* C16: in on_phase_end every meter's sync_state, and after them the
\* barrier, are done before any hook's on_phase_end callback is called; in
\* on_phase_start advance_phase has returned before any hook's
\* on_phase_start callback is called.
C16_SyncBarrierThenHooks ==
    /\ (last_op = "on_phase_end" /\ At("hook.on_phase_end") # {}) =>
           /\ Cardinality(At("meter.sync_state")) = NumMeters
           /\ Cardinality(At("barrier")) = 1
           /\ Before("meter.sync_state", "barrier")
           /\ Before("barrier", "hook.on_phase_end")
    /\ (last_op = "on_phase_start" /\ At("hook.on_phase_start") # {}) =>
           /\ raised = NoError
           /\ Cardinality(At("_set_model_train_mode")) = 1
           /\ Before("meter.reset", "hook.on_phase_start")
           /\ Before("_set_model_train_mode", "hook.on_phase_start")
           /\ Before("optimizer.update_schedule_on_epoch",
                     "hook.on_phase_start")

C16_Witness ==
    /\ last_op = "on_phase_end" /\ raised = NoError
    /\ Len(hooks) = MaxHooks /\ train
    /\ events = Calls("meter.sync_state", NumMeters) \o <<"barrier">>
                \o Calls("hook.on_phase_end", MaxHooks)

----------------------------------------------------------------------------
(* The phase-end barrier (SpecBarrier) *)

\* process i is running, or has run, its phase-end hooks of phase p (and may
\* have gone on to advance_phase)
PastBarrier(i, p) ==
    \/ procs[i].phase > p
    \/ procs[i].phase = p /\ procs[i].pc \in {"hooks", "idle", "done"}

\* process j has done its steps and synchronized all its meters in phase p
SyncDone(j, p) ==
    \/ procs[j].phase > p
    \/ procs[j].phase = p /\ procs[j].pc \in {"barrier", "hooks", "idle", "done"}

C17_NoneAhead ==
    \A i, j \in Procs : \A p \in 0..(Len(PeerPlan) - 1) :
        PastBarrier(i, p) => SyncDone(j, p)

SameSteps == \A i, j \in Procs : procs[i].batches = procs[j].batches

AllDone == \A i \in Procs : procs[i].pc = "done"

\* C17: with several processes running the same lifecycle, no process runs
\* its phase-end hooks of phase p, or advances into phase p + 1, before every
\* process has finished its steps and its meters' synchronization of phase p;
\* and when all processes do the same number of steps per phase, every
\* process gets to the end of its loop (none blocks forever in a collective).
C17_BarrierOrdersPhases ==
    /\ []C17_NoneAhead
    /\ (SameSteps => <>AllDone)

\* one process runs its hooks of the second phase while another is still
\* inside the barrier
C17_Witness ==
    /\ procs[1].phase = 1 /\ procs[1].pc = "hooks"
    /\ procs[2].phase = 1 /\ procs[2].pc = "barrier"
    /\ SameSteps

----------------------------------------------------------------------------
(* Hooks in a checkpoint (SpecHookCodec) *)

\* C18: set_classy_state does not fail for a difference between the task's
\* hooks and the hooks of the record: a hook of the task whose name is in the
\* record gets the record's sub-state, a hook whose name is not is skipped
\* and keeps the state it has (the default-constructed one on a new task),
\* and the record's entries for hooks the task does not have are ignored.
C18_HookDifferencesTolerated ==
    [][ (restores' = restores + 1) =>
            LET saved == Get(state).hooks IN
            /\ raised' # NoError => ~IndexInRange(phases, phase_idx')
            /\ DOMAIN hook_state' = HookNames(hooks)
            /\ \A h \in HookNames(hooks) :
                   hook_state'[h] =
                       IF h \in DOMAIN saved THEN saved[h]
                       ELSE IF last_op' = "prepare" THEN 0
                       ELSE hook_state[h] ]_vars

\* a record with the state of hook 1 only, restored onto a new task with
\* hooks 1 and 2
C18_Witness ==
    /\ last_op = "prepare" /\ restores > 0 /\ raised = NoError
    /\ hooks = <<1, 2>>
    /\ DOMAIN Get(state).hooks = {1} /\ Get(state).hooks[1] = 1
    /\ hook_state[1] = 1 /\ hook_state[2] = 0

----------------------------------------------------------------------------
(* The performance log at the end of a phase (SpecHooks) *)

PhaseEnded == last_op = "on_phase_end" /\ raised = NoError

PerfSample(tag, tidx) == [tag |-> tag, phase_idx |-> tidx]

\* C19 as stated: after on_phase_end returns the performance log is exactly
\* one sample, tagged total, of the phase that just ended; and the log the
\* phase-end hooks find holds the train sample of the ending phase and no
\* sample of another phase.
C19_OneTotalSample ==
    PhaseEnded =>
        /\ perf_log = <<PerfSample("total", train_phase_idx)>>
        /\ hooks_saw # None =>
               LET log == Get(hooks_saw) IN
               /\ \E i \in DOMAIN log :
                      log[i] = PerfSample("train", train_phase_idx)
               /\ \A i \in DOMAIN log : log[i].phase_idx = train_phase_idx

\* C19, amended: after on_phase_end of a train phase returns the performance
\* log is exactly one sample, tagged total, of that phase, and after
\* on_phase_end of a test phase it is empty. The log the phase-end hooks of a
\* train phase find ends with the train sample of the ending phase, and the
\* hooks of a test phase find no sample of that phase; either may be preceded
\* by one sample, the total sample the last on_phase_end of a train phase
\* left.
C19_OneTotalSampleOfTrainPhase ==
    PhaseEnded =>
        /\ perf_log = IF train THEN <<PerfSample("total", train_phase_idx)>>
                      ELSE <<>>
        /\ hooks_saw # None =>
               LET log == Get(hooks_saw)
                   own == IF train THEN 1 ELSE 0
               IN  /\ Len(log) \in {own, own + 1}
                   /\ train => log[Len(log)]
                                   = PerfSample("train", train_phase_idx)
                   /\ Len(log) = own + 1 =>
                          /\ log[1].tag = "total"
                          /\ log[1].phase_idx \in 0..train_phase_idx

\* the hooks of the second of two train phases in a row find the total sample
\* of the first before the train sample of the second
C19_Witness ==
    /\ PhaseEnded /\ train /\ train_phase_idx = 1
    /\ hooks_saw = Some(<<PerfSample("total", 0), PerfSample("train", 1)>>)
    /\ perf_log = <<PerfSample("total", 1)>>

----------------------------------------------------------------------------
(* The per-epoch schedule update (Spec) *)

\* C20: an advance_phase that returns has invoked the optimizer's
\* update_schedule_on_epoch exactly when the phase entered is a train phase
\* that is not the first train phase of the run (its train_phase_idx is above
\* 0); entering a test phase never invokes it.
C20_ScheduleUpdateAfterFirst ==
    last_op = "advance_phase" /\ raised = NoError =>
        (At("optimizer.update_schedule_on_epoch") # {}
            <=> train /\ train_phase_idx > 0)

----------------------------------------------------------------------------
(* Buffer synchronization (SpecBuffers) *)

Broadcasts == Cardinality(At("broadcast"))

PhaseEntered ==
    last_op \in {"advance_phase", "on_phase_start"} /\ raised = NoError

\* C21: in a distributed run, with the before-eval policy each buffer of the
\* model is broadcast once on every transition into a test phase and none is
\* on a transition into a train phase; with the disabled or the forward-pass
\* policy no call broadcasts anything; and the wrapper's broadcast_buffers
\* option is on exactly when the policy is forward-pass.
C21_BuffersBroadcastBeforeEval ==
    is_distributed =>
        /\ PhaseEntered =>
               Broadcasts = IF broadcast_buffers_mode = "BEFORE_EVAL" /\ ~train
                            THEN NumBuffers ELSE 0
        /\ broadcast_buffers_mode # "BEFORE_EVAL" => Broadcasts = 0
        /\ distributed_model # None =>
               broadcast_buffers
                   = Some(broadcast_buffers_mode = "FORWARD_PASS")

\* a test phase entered under the before-eval policy, the model wrapped
\* without the automatic broadcast
C21_Witness ==
    /\ is_distributed /\ broadcast_buffers_mode = "BEFORE_EVAL"
    /\ PhaseEntered /\ ~train /\ phase_idx > 0
    /\ Broadcasts = NumBuffers
    /\ broadcast_buffers = Some(FALSE)

----------------------------------------------------------------------------
(* What a faulty step records (Spec) *)

\* C22: a train_step whose loss is NaN or +/- infinity raises
\* FloatingPointError having appended the loss to the loss history and fed
\* every meter; an eval_step whose loss is raises it with the loss history
\* and every meter as they were before the step.
C22_FaultRecordedByTrainStepOnly ==
    [][ NonFiniteLoss' =>
            /\ raised' = "FloatingPointError"
            /\ losses' = losses
            /\ last_op' = "train_step" =>
                   /\ heap'[losses] = Append(heap[losses], NonFinite)
                   /\ Cardinality({i \in DOMAIN events' :
                                      events'[i] = "meter.update"}) = NumMeters
                   /\ \A m \in DOMAIN meters : meters'[m] = meters[m] + 1
            /\ last_op' = "eval_step" =>
                   /\ heap'[losses] = heap[losses]
                   /\ meters' = meters ]_vars

\* a train_step that failed on its loss after a train_step that succeeded:
\* both losses are in the history and both batches in the meters
C22_Witness ==
    /\ NonFiniteLoss /\ last_op = "train_step"
    /\ raised = "FloatingPointError"
    /\ heap[losses] = <<ScaleLoss(1, BatchsizePerReplica), NonFinite>>
    /\ \A m \in DOMAIN meters : meters[m] = 2

----------------------------------------------------------------------------
(* The update counter (Spec) *)

\* the last call was a train_step that returned
TrainStepDone == last_op = "train_step" /\ raised = NoError

\* the calls that change the optimizer: a step or a schedule update
OptimizerUpdates ==
    {"optimizer.step", "optimizer.update_schedule_on_step",
     "optimizer.update_schedule_on_epoch"}

\* the global batch size of the dataset of the current phase
CurrentGlobalBatchsize ==
    IF train THEN TrainGlobalBatchsize ELSE TestGlobalBatchsize

\* num_updates starts at 0, a train_step that returns adds the global batch
\* size to it, its last call on a collaborator being the optimizer's step,
\* and nothing else changes it
CountsTrainSteps ==
    /\ TrainStepDone' =>
           /\ num_updates' = num_updates + CurrentGlobalBatchsize
           /\ events'[Len(events')] = "optimizer.step"
    /\ ~TrainStepDone' => num_updates' = num_updates

----------------------------------------------------------------------------
(* What set_classy_state restores (SpecRestore) *)

\* the fields of the task set_classy_state is called on: this task's, or
\* those of the new task prepare() calls it on
RestoreTarget == IF last_op' = "prepare" THEN FreshFields(NewRef(heap)) ELSE Fields

\* C24: set_classy_state on a test-only task sets train to false whatever the
\* record says and leaves phase_idx, train_phase_idx, num_updates, the loss
\* history and every meter's state as they were; on any other task it sets
\* train, phase_idx, train_phase_idx and num_updates to the record's values,
\* makes the record's list the loss history, and gives the i-th meter the
\* i-th meter state of the record.
C24_TestOnlyRestoresFlagOnly ==
    [][ (restores' = restores + 1) =>
            LET st == Get(state)
                cur == RestoreTarget
            IN  IF test_only
                THEN /\ train' = FALSE
                     /\ phase_idx' = cur.phase_idx
                     /\ train_phase_idx' = cur.train_phase_idx
                     /\ num_updates' = cur.num_updates
                     /\ losses' = cur.losses
                     /\ heap'[losses'] = IF last_op' = "prepare" THEN <<>>
                                         ELSE heap[losses]
                     /\ meters' = cur.meters
                ELSE /\ train' = st.train
                     /\ phase_idx' = st.phase_idx
                     /\ train_phase_idx' = st.train_phase_idx
                     /\ num_updates' = st.num_updates
                     /\ losses' = st.losses
                     /\ heap'[losses'] = heap[st.losses]
                     /\ \A m \in DOMAIN meters : meters'[m] = st.meters[m]
      ]_vars

\* a test-only task in its first phase, one step done, was given the record
\* of a train phase of another task and kept its own fields
C24_Witness ==
    /\ last_op = "set_classy_state" /\ test_only
    /\ Get(state).train /\ ~train
    /\ Get(state).phase_idx = 0 /\ Get(state).train_phase_idx = 0
    /\ Get(state).num_updates = TrainGlobalBatchsize
    /\ heap[Get(state).losses] = <<>>
    /\ Get(state).meters = [m \in 1..NumMeters |-> m]
    /\ phase_idx = 0 /\ train_phase_idx = -1 /\ num_updates = 0
    /\ Len(heap[losses]) = 1
    /\ meters = Repeat(1, NumMeters)

----------------------------------------------------------------------------
(* The runtime objects after a restore (SpecCodec) *)

\* C25: after a set_classy_state that returned, given a record the task
\* produced (one extracted before the first phase included), the model and
\* the loss are in train mode iff the task's train flag is true, and the
\* iterator is a new one over the dataloader of that phase type.
C25_ModeFollowsRestoredFlag ==
    (Restored /\ raised = NoError) =>
        /\ model_train_mode = train
        /\ data_iterator = create_data_iterator(train)

----------------------------------------------------------------------------
(* The record after a restore (SpecCodec) *)

\* the record is a deep copy that was passed to set_classy_state, and no
\* record was extracted since
RecordRestored ==
    /\ state # None
    /\ Get(extracted).deep_copy
    /\ Get(extracted).restores < restores

\* C26: a record that was passed to set_classy_state keeps the values it had,
\* its loss history included, whatever train_step, eval_step and
\* advance_phase calls follow on the restored task.
C26_RestoredRecordUnchanged ==
    [][ (RecordRestored /\ last_op' \in StepOps \cup {"advance_phase"}) =>
            Values(Get(state'), heap') = Values(Get(state), heap) ]_vars

----------------------------------------------------------------------------
(* advance_phase past the plan (Spec) *)

\* C27: advance_phase called when done_training() is true raises and leaves
\* phase_idx, train_phase_idx, the train flag, the loss history and the
\* meters as they were before the call.
C27_AdvancePastPlanChangesNothing ==
    [][ (last_op' = "advance_phase" /\ done_training(phase_idx, phases)) =>
            /\ raised' # NoError
            /\ phase_idx' = phase_idx
            /\ train_phase_idx' = train_phase_idx
            /\ train' = train
            /\ heap'[losses'] = heap[losses]
            /\ meters' = meters ]_vars

----------------------------------------------------------------------------
(* Setters that raise (SpecOptions) *)

\* C28: a set_amp_args that raises (mixed precision asked for without apex)
\* leaves amp_args as it was, and a set_distributed_options that raises (apex
\* batch norm synchronisation asked for without apex) leaves
\* broadcast_buffers_mode, batch_norm_sync_mode and find_unused_parameters as
\* they were.
C28_FailedSetterChangesNothing ==
    [][ /\ (last_op' = "set_amp_args" /\ raised' # NoError) =>
               amp_args' = amp_args
        /\ (last_op' = "set_distributed_options" /\ raised' # NoError) =>
               /\ broadcast_buffers_mode' = broadcast_buffers_mode
               /\ batch_norm_sync_mode' = batch_norm_sync_mode
               /\ find_unused_parameters' = find_unused_parameters ]_vars

----------------------------------------------------------------------------
(* eval_phase_idx (Spec) *)

\* the test phases among the phases of the plan entered so far
TestPhasesEntered ==
    LET n == IF phase_idx + 1 < Len(phases) THEN phase_idx + 1
             ELSE Len(phases)
    IN  get_total_test_phases(SubSeq(phases, 1, n))

\* C29: whatever advance_phase calls were made on a new task, eval_phase_idx
\* is the number of test phases entered so far minus one: -1 until the first
\* test phase is entered, one more for each test phase entered, and the same
\* for each train phase entered.
C29_EvalPhaseIdxCountsTestPhases ==
    eval_phase_idx(phase_idx, train_phase_idx) = TestPhasesEntered - 1

====
